---- MODULE Spec2Model ----
(***************************************************************************)
(* Model of the clinical-data chatbot: the interactive command-line loop   *)
(* of chatbot_backend.py and the web chat handler of streamlit_app.py.     *)
(*                                                                         *)
(* Texts that the code processes character by character (the LLM's raw     *)
(* answer, the user's question) are sequences of one-character strings.    *)
(* A formatted reply (an f-string) is a record: the template's literal     *)
(* text and the values put into its holes.                                 *)
(***************************************************************************)
EXTENDS Integers, Sequences, FiniteSets, TLC

VARIABLES
    variant,        \* which program runs: "interactive", "web" or "cleanup"
    pc,             \* position of the program
    modelOk,        \* whether the Gemini model could be created at start
    chat_history,   \* interactive: the conversation context
    log,            \* interactive: every entry ever appended to chat_history
    messages,       \* web: st.session_state.messages
    turns,          \* number of questions handled so far
    varied,         \* number of turns that were not the plain answered turn
    user_question,  \* the question of the current turn
    raw_text,       \* <<>> or <<response.text of the Synthesizer's LLM call>>
    sql_query,      \* <<>> while unbound, else <<the cleaned candidate>>
    executed,       \* candidate texts handed to cursor.execute this turn
    dbError,        \* <<>> or <<the error raised by executing the candidate>>
    results,        \* <<>> or <<the result fetched for the candidate>>
    llmCalls,       \* the model.generate_content calls of this turn, in order
    response,       \* <<>> while unbound, else <<the reply of this turn>>
    raised,         \* <<>> or <<the exception that escaped the turn>>
    recleaned       \* cleanup applied to an already cleaned text

vars == <<variant, pc, modelOk, chat_history, log, messages, turns, varied,
          user_question, raw_text, sql_query, executed, dbError, results,
          llmCalls, response, raised, recleaned>>

\* ------------------------------------------------------------------ bounds

\* Longest raw text enumerated for the cleanup function.
MaxLen == 4
\* Questions read in one interactive session.
MaxTurns == 6
\* Turns of an interactive session that may differ from the plain turn.
MaxVaried == 1
\* Questions submitted in one web session.
MaxWebTurns == 2

\* ------------------------------------------------------- program constants

MAX_HISTORY_TURNS == 5

NOT_A_QUERY == <<"N","O","T","_","A","_","Q","U","E","R","Y">>

NOT_ANSWERABLE ==
    "I can only answer questions related to the clinical database. Please ask me about patients or adverse events."

NO_RESULTS == "I found no results for your query."

GREETING == "Hello! I am an AI clinical data assistant. How can I help you?"

Whitespace == {" ", "\n", "\t"}

\* The backtick character (the module's lexer admits none inside a string).
Backtick == "<backtick>"

\* ------------------------------------------------------------ text helpers

\* str.strip(): leading and trailing whitespace removed.
RECURSIVE LStrip(_)
LStrip(s) ==
    IF s # <<>> /\ Head(s) \in Whitespace THEN LStrip(Tail(s)) ELSE s

RECURSIVE RStrip(_)
RStrip(s) ==
    IF s # <<>> /\ s[Len(s)] \in Whitespace
    THEN RStrip(SubSeq(s, 1, Len(s) - 1))
    ELSE s

Strip(s) == RStrip(LStrip(s))

IsPrefix(p, s) == Len(p) <= Len(s) /\ SubSeq(s, 1, Len(p)) = p

\* str.replace(sub, ""): a left-to-right scan deleting each non-overlapping
\* occurrence; what the deletions bring together is not scanned again.
RECURSIVE RemoveAll(_, _)
RemoveAll(s, sub) ==
    IF s = <<>> THEN <<>>
    ELSE IF IsPrefix(sub, s)
         THEN RemoveAll(SubSeq(s, Len(sub) + 1, Len(s)), sub)
         ELSE <<Head(s)>> \o RemoveAll(Tail(s), sub)

\* The substring test (Python's in) on strings.
Contains(s, sub) ==
    \E i \in 1..(Len(s) - Len(sub) + 1) : SubSeq(s, i, i + Len(sub) - 1) = sub

\* str.lower() on the letters the questions use.
LowerChar(c) ==
    CASE c = "Q" -> "q" [] c = "U" -> "u" [] c = "I" -> "i" [] c = "T" -> "t"
      [] c = "E" -> "e" [] c = "X" -> "x" [] OTHER -> c

Lower(s) == [i \in 1..Len(s) |-> LowerChar(s[i])]

\* The cleanup of the LLM's answer into a SQL candidate.
Clean(text) == RemoveAll(RemoveAll(Strip(text), <<Backtick>>), <<"s","q","l">>)

\* ---------------------------------------------------------------- texts

\* A text: a template and what fills its holes. A plain string is Str(chars).
Fmt(tmpl, err, sql, val, text) ==
    [tmpl |-> tmpl, err |-> err, sql |-> sql, val |-> val, text |-> text]

Str(chars) == Fmt("{text}", <<>>, <<>>, <<>>, chars)
Lit(literal) == Fmt(literal, <<>>, <<>>, <<>>, <<>>)

\* ------------------------------------------------- the outside world's part

\* Exceptions: the class and str(e), word by word.
NotFoundV1Beta ==
    [type |-> "NotFound",
     msg |-> <<"404", "models/gemini", "is", "not", "found", "for", "API", "version", "v1beta">>]
NotFoundOther ==
    [type |-> "NotFound", msg |-> <<"404", "model", "not", "found">>]
ServiceError ==
    [type |-> "Exception", msg |-> <<"503", "service", "unavailable">>]
SqlError ==
    [type |-> "sqlite3.Error", msg |-> <<"no", "such", "table:", "Nonexistent">>]
CatalogError ==
    [type |-> "sqlite3.Error", msg |-> <<"database", "disk", "image", "is", "malformed">>]
NameError ==
    [type |-> "NameError", msg |-> <<"name", "response_text", "is", "not", "defined">>]
UnboundLocalError ==
    [type |-> "UnboundLocalError", msg |-> <<"sql_query", "referenced", "before", "assignment">>]

\* What the LLM may answer to the Synthesizer's prompt.
SELECT_1 == <<"S","E","L","E","C","T"," ","1">>
RawSql == SELECT_1
RawFenced ==
    <<Backtick, Backtick, Backtick, "s", "q", "l", "\n">> \o SELECT_1
        \o <<"\n", Backtick, Backtick, Backtick>>
RawSentinel == NOT_A_QUERY
RawSentinelDot == NOT_A_QUERY \o <<".">>
RawSentinelSplit == <<"N","O","T","_","A","_", Backtick, "Q","U","E","R","Y">>

\* What the LLM may answer to the Composer's or the conversational prompt.
RawAnswer == <<" ", "7", " ", "p", "a", "t", "i", "e", "n", "t", "s", "\n">>

\* The outcome of one model.generate_content call followed by response.text.
Answers(text) == [exc |-> <<>>, text |-> text]
Fails(e) == [exc |-> <<e>>, text |-> <<>>]

\* The record of one call: its kind and its outcome.
Call(kind, llm) == [kind |-> kind, exc |-> llm.exc, text |-> llm.text]

SynthOutcomes ==
    {Answers(t) : t \in {RawSql, RawFenced, RawSentinel, RawSentinelDot, RawSentinelSplit}}
        \cup {Fails(e) : e \in {NotFoundV1Beta, NotFoundOther, ServiceError}}

ComposeOutcomes == {Answers(RawAnswer), Fails(ServiceError)}

\* The outcome of cursor.execute(candidate); cursor.fetchall(); cursor.description
\* (description <<>> stands for None, what a statement that is no query leaves).
Rows(rows, description) == [exc |-> <<>>, rows |-> rows, description |-> description]
DbFails(e) == [exc |-> <<e>>, rows |-> <<>>, description |-> <<>>]

NoRows == Rows(<<>>, <<"patient_id">>)
NoQuery == Rows(<<>>, <<>>)
OneCell == Rows(<< <<7>> >>, <<"COUNT(*)">>)
OneRowTwoColumns == Rows(<< <<7, 8>> >>, <<"patient_id", "age">>)
TwoRows == Rows(<< <<7>>, <<8>> >>, <<"patient_id">>)

DbOutcomes == {NoRows, NoQuery, OneCell, OneRowTwoColumns, TwoRows, DbFails(SqlError)}

\* One turn's environment: what the catalog query, the two LLM calls and the
\* execution of the candidate do when (and if) the code reaches them.
Env(catalog, synth, db, compose) ==
    [catalog |-> catalog, synth |-> synth, db |-> db, compose |-> compose]

\* The plain turn: a question answered from two rows by the Composer's LLM call.
PlainEnv == Env(<<>>, Answers(RawSql), TwoRows, Answers(RawAnswer))
PlainQuestion == <<"h","o","w"," ","m","a","n","y">>

\* The environments of a turn. The parts a turn never reaches (the execution
\* after a failed catalog query, a failed Synthesizer call or a sentinel; the
\* Composer's call likewise) are those of the plain turn.
Envs ==
    {Env(<<CatalogError>>, PlainEnv.synth, PlainEnv.db, PlainEnv.compose)}
        \cup {Env(<<>>, s, PlainEnv.db, PlainEnv.compose) : s \in SynthOutcomes}
        \cup {Env(<<>>, Answers(t), d, m) :
                  t \in {RawSql, RawFenced}, d \in DbOutcomes, m \in ComposeOutcomes}

Blank == <<>>
Questions ==
    {PlainQuestion, Blank, <<"q","u","i","t">>, <<"e","x","i","t">>,
     <<"Q","U","I","T">>, <<"E","x","i","t">>}

\* ------------------------------------------------------ chatbot_backend.py

\* What a call leaves behind: the exception that escaped it or its return
\* value, and the calls it made.
Turn(exc, reply, raw, sql, exe, dberr, res, calls, history) ==
    [raised |-> exc, response |-> reply, raw_text |-> raw, sql_query |-> sql,
     executed |-> exe, dbError |-> dberr, results |-> res, llmCalls |-> calls,
     chat_history |-> history]

\* _get_sql_from_llm: one LLM call, then the cleanup.
_get_sql_from_llm(llm) ==
    IF llm.exc # <<>> THEN [exc |-> llm.exc, sql |-> <<>>]
    ELSE [exc |-> <<>>, sql |-> <<Clean(llm.text)>>]

\* _format_response_naturally: the reply and the LLM calls it took.
_format_response_naturally(rows, column_names, llm) ==
    IF Len(rows) = 1 /\ Len(column_names) = 1
    THEN [exc |-> <<>>, calls |-> <<>>,
          reply |-> <<Fmt("The answer is: {val}", <<>>, <<>>, <<rows[1][1]>>, <<>>)>>]
    ELSE IF llm.exc # <<>>
         THEN [exc |-> llm.exc, calls |-> <<Call("compose", llm)>>, reply |-> <<>>]
         ELSE [exc |-> <<>>, calls |-> <<Call("compose", llm)>>, reply |-> <<Str(Strip(llm.text))>>]

\* The except clauses of query_database, in order.
ExceptClauses(e, sql) ==
    IF e.type = "NotFound"
    THEN IF \E i \in 1..Len(e.msg) : e.msg[i] = "v1beta"
         THEN <<Fmt("API Error: The model was not found. This is caused by an old version of the 'google-generativeai' library. Please ensure your virtual environment is active and you have run 'pip install --upgrade google-generativeai'. Details: {err}",
                    e.msg, <<>>, <<>>, <<>>)>>
         ELSE <<Fmt("Sorry, it seems the AI model I'm trying to use is not available. Please check the model name. Details: {err}",
                    e.msg, <<>>, <<>>, <<>>)>>
    ELSE IF e.type = "sqlite3.Error"
         THEN IF sql = <<>> THEN <<>>
              ELSE <<Fmt("I couldn't run the query. The database returned an error: {err}\nFaulty SQL was: {sql}",
                         e.msg, sql[1], <<>>, <<>>)>>
         ELSE <<Fmt("An unexpected error occurred: {err}", e.msg, <<>>, <<>>, <<>>)>>

\* The sentinel test on the cleaned candidate.
IsNotAQueryExact(sql) == sql = NOT_A_QUERY
IsNotAQuery(sql) == Contains(sql, NOT_A_QUERY)

\* query_database: the catalog query outside the try, the rest inside it.
query_database(env, history) ==
    IF env.catalog # <<>>
    THEN Turn(env.catalog, <<>>, <<>>, <<>>, <<>>, <<>>, <<>>, <<>>, history)
    ELSE
    LET synth == _get_sql_from_llm(env.synth)
        raw == IF env.synth.exc = <<>> THEN <<env.synth.text>> ELSE <<>>
        Caught(e, sql, exe, dberr, res, calls) ==
            LET reply == ExceptClauses(e, sql)
            IN  Turn(IF reply = <<>> THEN <<UnboundLocalError>> ELSE <<>>,
                     reply, raw, sql, exe, dberr, res, calls, history)
    IN  IF synth.exc # <<>>
        THEN Caught(synth.exc[1], <<>>, <<>>, <<>>, <<>>, <<Call("synthesize", env.synth)>>)
        ELSE IF IsNotAQuery(synth.sql[1])
        THEN Turn(<<>>, <<Lit(NOT_ANSWERABLE)>>, raw, synth.sql, <<>>, <<>>, <<>>,
                  <<Call("synthesize", env.synth)>>, history)
        ELSE IF env.db.exc # <<>>
        THEN Caught(env.db.exc[1], synth.sql, synth.sql, env.db.exc, <<>>,
                    <<Call("synthesize", env.synth)>>)
        ELSE IF env.db.rows = <<>>
        THEN Turn(<<>>, <<Lit(NO_RESULTS)>>, raw, synth.sql, synth.sql, <<>>,
                  <<env.db>>, <<Call("synthesize", env.synth)>>, history)
        ELSE
        LET formatted ==
                _format_response_naturally(env.db.rows, env.db.description, env.compose)
            calls == <<Call("synthesize", env.synth)>> \o formatted.calls
        IN  IF formatted.exc # <<>>
            THEN Caught(formatted.exc[1], synth.sql, synth.sql, <<>>, <<env.db>>, calls)
            ELSE Turn(<<>>, formatted.reply, raw, synth.sql, synth.sql, <<>>,
                      <<env.db>>, calls, history)

\* The quit test of the loop.
IsQuitCaseSensitive(question) ==
    question \in {<<"q","u","i","t">>, <<"e","x","i","t">>}
IsQuit(question) ==
    Lower(question) \in {<<"q","u","i","t">>, <<"e","x","i","t">>}

\* The two appends that end a turn.
AppendReplyFirst(history, question, reply) ==
    history \o <<[role |-> "model", parts |-> <<reply>>],
                 [role |-> "user", parts |-> <<Str(question)>>]>>
AppendTurn(history, question, reply) ==
    history \o <<[role |-> "user", parts |-> <<Str(question)>>],
                 [role |-> "model", parts |-> <<reply>>]>>

\* Trim history to the last MAX_HISTORY_TURNS turns.
TrimHead(history) ==
    IF Len(history) > MAX_HISTORY_TURNS * 2
    THEN SubSeq(history, 1, MAX_HISTORY_TURNS * 2)
    ELSE history
Trim(history) ==
    IF Len(history) > MAX_HISTORY_TURNS * 2
    THEN SubSeq(history, Len(history) - MAX_HISTORY_TURNS * 2 + 1, Len(history))
    ELSE history

\* -------------------------------------------------------- streamlit_app.py

\* What the web handler meets in one run of the script: whether
\* get_db_connection returns a connection, and the outcomes of the catalog
\* query, the Synthesizer's call, the execution, the Composer's call and the
\* conversational call.
WebEnv(conn, env, converse) == [conn |-> conn, env |-> env, converse |-> converse]

ConverseOutcomes == {Answers(RawAnswer), Fails(ServiceError)}

\* The conversational call is reached only after a Synthesizer's answer, and
\* nothing is reached without a connection.
WebEnvs ==
    {WebEnv(FALSE, PlainEnv, Answers(RawAnswer))}
        \cup {WebEnv(TRUE, e, Answers(RawAnswer)) : e \in Envs}
        \cup {WebEnv(TRUE, Env(<<>>, s, PlainEnv.db, PlainEnv.compose), v) :
                  s \in SynthOutcomes, v \in ConverseOutcomes}

WebQuestions == {PlainQuestion, <<"h","i">>}

\* get_sql_from_llm: one LLM call, then the cleanup.
get_sql_from_llm(llm) ==
    IF llm.exc # <<>> THEN [exc |-> llm.exc, sql |-> <<>>]
    ELSE [exc |-> <<>>, sql |-> <<Clean(llm.text)>>]

\* format_response_naturally: the reply and the LLM calls it took.
format_response_unguarded(rows, column_names, llm) ==
    IF llm.exc # <<>>
    THEN [exc |-> llm.exc, calls |-> <<Call("compose", llm)>>, reply |-> <<>>]
    ELSE [exc |-> <<>>, calls |-> <<Call("compose", llm)>>, reply |-> <<Str(Strip(llm.text))>>]
format_response_naturally(rows, column_names, llm) ==
    IF rows = <<>>
    THEN [exc |-> <<>>, calls |-> <<>>, reply |-> <<Lit(NO_RESULTS)>>]
    ELSE IF llm.exc # <<>>
         THEN [exc |-> llm.exc, calls |-> <<Call("compose", llm)>>, reply |-> <<>>]
         ELSE [exc |-> <<>>, calls |-> <<Call("compose", llm)>>, reply |-> <<Str(Strip(llm.text))>>]

\* The sentinel test of the web handler.
WebIsNotAQuery(sql) == Contains(sql, NOT_A_QUERY)

\* The body run for a submitted question, from get_db_connection to the
\* statement before st.markdown(response_text): response_text, bound or not.
web_turn(w, model_ok) ==
    LET env == w.env
        Caught(e, raw, sql, exe, dberr, res, calls) ==
            Turn(<<>>, <<Fmt("An error occurred: {err}", e.msg, <<>>, <<>>, <<>>)>>,
                 raw, sql, exe, dberr, res, calls, <<>>)
    IN  IF ~w.conn \/ ~model_ok
        THEN Turn(<<NameError>>, <<>>, <<>>, <<>>, <<>>, <<>>, <<>>, <<>>, <<>>)
        ELSE IF env.catalog # <<>>
        THEN Caught(env.catalog[1], <<>>, <<>>, <<>>, <<>>, <<>>, <<>>)
        ELSE
        LET synth == get_sql_from_llm(env.synth)
            raw == IF env.synth.exc = <<>> THEN <<env.synth.text>> ELSE <<>>
        IN  IF synth.exc # <<>>
            THEN Caught(synth.exc[1], raw, <<>>, <<>>, <<>>, <<>>, <<Call("synthesize", env.synth)>>)
            ELSE IF WebIsNotAQuery(synth.sql[1])
            THEN IF w.converse.exc # <<>>
                 THEN Caught(w.converse.exc[1], raw, synth.sql, <<>>, <<>>, <<>>,
                             <<Call("synthesize", env.synth), Call("converse", w.converse)>>)
                 ELSE Turn(<<>>, <<Str(w.converse.text)>>, raw, synth.sql, <<>>, <<>>,
                           <<>>, <<Call("synthesize", env.synth), Call("converse", w.converse)>>, <<>>)
            ELSE IF env.db.exc # <<>>
            THEN Caught(env.db.exc[1], raw, synth.sql, synth.sql, env.db.exc, <<>>,
                        <<Call("synthesize", env.synth)>>)
            ELSE
            LET formatted ==
                    format_response_naturally(env.db.rows, env.db.description,
                                              env.compose)
                calls == <<Call("synthesize", env.synth)>> \o formatted.calls
            IN  IF formatted.exc # <<>>
                THEN Caught(formatted.exc[1], raw, synth.sql, synth.sql, <<>>,
                            <<env.db>>, calls)
                ELSE Turn(<<>>, formatted.reply, raw, synth.sql, synth.sql, <<>>,
                          <<env.db>>, calls, <<>>)

\* ------------------------------------------------------------ the sessions

Init ==
    /\ variant \in {"interactive", "web"}
    /\ pc = "awaiting"
    /\ modelOk \in (IF variant = "interactive" THEN {TRUE} ELSE BOOLEAN)
    /\ chat_history = <<>>
    /\ log = <<>>
    /\ messages = IF variant = "web"
                  THEN <<[role |-> "assistant", content |-> Lit(GREETING)]>>
                  ELSE <<>>
    /\ turns = 0
    /\ varied = 0
    /\ user_question = <<>>
    /\ raw_text = <<>>
    /\ sql_query = <<>>
    /\ executed = <<>>
    /\ dbError = <<>>
    /\ results = <<>>
    /\ llmCalls = <<>>
    /\ response = <<>>
    /\ raised = <<>>
    /\ recleaned = <<>>

\* user_question = input(...); the quit test; break and db_conn.close().
ReadInput(question) ==
    /\ variant = "interactive"
    /\ pc = "awaiting"
    /\ turns < MaxTurns
    /\ question = PlainQuestion \/ IsQuit(question) \/ varied < MaxVaried
    /\ user_question' = question
    /\ pc' = IF IsQuit(question) THEN "closed" ELSE "querying"
    /\ varied' = IF question = PlainQuestion \/ IsQuit(question)
                 THEN varied ELSE varied + 1
    /\ raw_text' = <<>>
    /\ sql_query' = <<>>
    /\ executed' = <<>>
    /\ dbError' = <<>>
    /\ results' = <<>>
    /\ llmCalls' = <<>>
    /\ response' = <<>>
    /\ UNCHANGED <<variant, modelOk, chat_history, log, messages, turns, raised,
                   recleaned>>

\* response = query_database(model, user_question, db_conn, chat_history)
QueryDatabase(env) ==
    /\ variant = "interactive"
    /\ pc = "querying"
    /\ env = PlainEnv \/ user_question # PlainQuestion \/ varied < MaxVaried
    /\ LET t == query_database(env, chat_history)
       IN  /\ pc' = IF t.raised # <<>> THEN "crashed" ELSE "replied"
           /\ raised' = t.raised
           /\ response' = t.response
           /\ raw_text' = t.raw_text
           /\ sql_query' = t.sql_query
           /\ executed' = t.executed
           /\ dbError' = t.dbError
           /\ results' = t.results
           /\ llmCalls' = t.llmCalls
           /\ chat_history' = t.chat_history
    /\ varied' = IF env # PlainEnv /\ user_question = PlainQuestion
                 THEN varied + 1 ELSE varied
    /\ UNCHANGED <<variant, modelOk, log, messages, turns, user_question, recleaned>>

\* print the reply, append the question and the reply, trim the history.
EndTurn ==
    /\ variant = "interactive"
    /\ pc = "replied"
    /\ chat_history' = Trim(AppendTurn(chat_history, user_question, response[1]))
    /\ log' = AppendTurn(log, user_question, response[1])
    /\ turns' = turns + 1
    /\ pc' = "awaiting"
    /\ UNCHANGED <<variant, modelOk, messages, varied, user_question, raw_text,
                   sql_query, executed, dbError, results, llmCalls, response,
                   raised, recleaned>>

\* One run of the web script for a submitted question.
Submit(question, w) ==
    /\ variant = "web"
    /\ pc = "awaiting"
    /\ turns < MaxWebTurns
    /\ LET t == web_turn(w, modelOk)
           asked == Append(messages, [role |-> "user", content |-> Str(question)])
       IN  /\ messages' = IF t.raised # <<>> THEN asked
                          ELSE Append(asked, [role |-> "assistant",
                                              content |-> t.response[1]])
           /\ raised' = t.raised
           /\ response' = t.response
           /\ raw_text' = t.raw_text
           /\ sql_query' = t.sql_query
           /\ executed' = t.executed
           /\ dbError' = t.dbError
           /\ results' = t.results
           /\ llmCalls' = t.llmCalls
    /\ user_question' = question
    /\ turns' = turns + 1
    /\ UNCHANGED <<variant, pc, modelOk, chat_history, log, varied, recleaned>>

Next ==
    \/ \E question \in Questions : ReadInput(question)
    \/ \E env \in Envs : QueryDatabase(env)
    \/ EndTurn
    \/ \E question \in WebQuestions, w \in WebEnvs : Submit(question, w)

Spec == Init /\ [][Next]_vars

\* ---------------------------------------------------- cleanup, on its own

Alphabet == {" ", Backtick, "s", "q", "l", "X"}

RECURSIVE TextsOfLen(_)
TextsOfLen(n) ==
    IF n = 0 THEN {<<>>}
    ELSE {<<c>> \o t : c \in Alphabet, t \in TextsOfLen(n - 1)}

Texts == UNION {TextsOfLen(n) : n \in 0..MaxLen}

InitClean ==
    /\ variant = "cleanup"
    /\ pc = "raw"
    /\ raw_text \in {<<t>> : t \in Texts \cup {RawSql, RawFenced, RawSentinel}}
    /\ modelOk = TRUE
    /\ chat_history = <<>>
    /\ log = <<>>
    /\ messages = <<>>
    /\ turns = 0
    /\ varied = 0
    /\ user_question = <<>>
    /\ sql_query = <<>>
    /\ executed = <<>>
    /\ dbError = <<>>
    /\ results = <<>>
    /\ llmCalls = <<>>
    /\ response = <<>>
    /\ raised = <<>>
    /\ recleaned = <<>>

\* sql_query = response.text.strip().replace(...).replace(...)
ApplyClean ==
    /\ pc = "raw"
    /\ sql_query' = <<Clean(raw_text[1])>>
    /\ pc' = "cleaned"
    /\ UNCHANGED <<variant, modelOk, chat_history, log, messages, turns, varied,
                   user_question, raw_text, executed, dbError, results, llmCalls,
                   response, raised, recleaned>>

\* The cleanup applied to its own result.
ApplyCleanAgain ==
    /\ pc = "cleaned"
    /\ recleaned' = <<Clean(sql_query[1])>>
    /\ pc' = "recleaned"
    /\ UNCHANGED <<variant, modelOk, chat_history, log, messages, turns, varied,
                   user_question, raw_text, sql_query, executed, dbError, results,
                   llmCalls, response, raised>>

NextClean == ApplyClean \/ ApplyCleanAgain

SpecClean == InitClean /\ [][NextClean]_vars

\* ----------------------------------------------------------------- claims

\* The turn's cleaned candidate holds the sentinel.
SentinelTurn == sql_query # <<>> /\ Contains(sql_query[1], NOT_A_QUERY)

WebErrorReply(e) == Fmt("An error occurred: {err}", e.msg, <<>>, <<>>, <<>>)

\* C1, as stated: in a turn whose cleaned candidate holds NOT_A_QUERY nothing
\* is executed, the interactive reply is the fixed message and the web reply
\* is the text of one conversational LLM call.
C1_SentinelReplyIsConversation ==
    SentinelTurn =>
        /\ executed = <<>>
        /\ variant = "interactive" => response = <<Lit(NOT_ANSWERABLE)>>
        /\ variant = "web" =>
              /\ Len(llmCalls) = 2
              /\ llmCalls[2].kind = "converse"
              /\ response = <<Str(llmCalls[2].text)>>

\* C1, amended: in a turn whose cleaned candidate holds NOT_A_QUERY nothing is
\* executed; the interactive reply is the fixed message; the web variant makes
\* exactly one conversational LLM call and replies with its text, or, when
\* that call raises, with the "An error occurred" message carrying the error.
C1_SentinelNeverExecuted ==
    SentinelTurn =>
        /\ executed = <<>>
        /\ results = <<>>
        /\ variant = "interactive" =>
              /\ response = <<Lit(NOT_ANSWERABLE)>>
              /\ Len(llmCalls) = 1
        /\ variant = "web" =>
              /\ Len(llmCalls) = 2
              /\ llmCalls[1].kind = "synthesize"
              /\ llmCalls[2].kind = "converse"
              /\ response = IF llmCalls[2].exc = <<>>
                            THEN <<Str(llmCalls[2].text)>>
                            ELSE <<WebErrorReply(llmCalls[2].exc[1])>>

\* C1 witness: a web turn whose candidate holds the sentinel next to other
\* text and whose conversational call answered.
C1_Witness ==
    /\ variant = "web"
    /\ SentinelTurn
    /\ sql_query[1] # NOT_A_QUERY
    /\ Len(llmCalls) = 2
    /\ llmCalls[2].exc = <<>>
    /\ response # <<>>

IsSuffix(s, t) ==
    Len(s) <= Len(t) /\ s = SubSeq(t, Len(t) - Len(s) + 1, Len(t))

\* C2: in the interactive session the context never holds more than
\* 2 * MAX_HISTORY_TURNS entries and is always the most recent part (a suffix)
\* of the full chronological log of appended entries.
C2_BoundedSuffix ==
    variant = "interactive" =>
        /\ Len(chat_history) <= 2 * MAX_HISTORY_TURNS
        /\ IsSuffix(chat_history, log)
        /\ Len(log) <= 2 * MAX_HISTORY_TURNS => chat_history = log

\* C2 witness: a trim has happened, and it dropped entries that differ from
\* the ones kept.
C2_Witness ==
    /\ variant = "interactive"
    /\ pc = "awaiting"
    /\ Len(log) > 2 * MAX_HISTORY_TURNS
    /\ Len(chat_history) = 2 * MAX_HISTORY_TURNS
    /\ SubSeq(log, 1, 2 * MAX_HISTORY_TURNS) # chat_history

\* C3, as stated: when executing the candidate raises a database error, the
\* reply holds both the error's text and the SQL text that was executed.
C3_ErrorReplyHoldsErrorAndSql ==
    dbError # <<>> =>
        /\ response # <<>>
        /\ response[1].err = dbError[1].msg
        /\ response[1].sql = executed[1]

\* C4, as stated: no failure raised while a turn is processed ends the
\* interactive session; the turn ends with a reply.
C4_NoFailureEndsSession ==
    variant = "interactive" => pc # "crashed" /\ raised = <<>>

\* C5, as stated: for a result of one row and one column, composing takes no
\* LLM call and the reply is the template around that value, in both front
\* ends.
C5_SingleCellFastPath ==
    (results # <<>> /\ Len(results[1].rows) = 1 /\ Len(results[1].description) = 1) =>
        /\ \A i \in 1..Len(llmCalls) : llmCalls[i].kind # "compose"
        /\ response =
              <<Fmt("The answer is: {val}", <<>>, <<>>, <<results[1].rows[1][1]>>, <<>>)>>

\* C6: when the executed candidate returns no rows, the reply is the fixed
\* "no results" message and the Synthesizer's call is the turn's only LLM call.
C6_NoRowsFixedReply ==
    (executed # <<>> /\ results # <<>> /\ results[1].rows = <<>>) =>
        /\ response = <<Lit(NO_RESULTS)>>
        /\ Len(llmCalls) = 1
        /\ llmCalls[1].kind = "synthesize"

\* C6 witness: an interactive turn whose candidate ran and returned no rows.
C6_Witness ==
    /\ variant = "interactive"
    /\ pc = "replied"
    /\ executed # <<>>
    /\ results # <<>>
    /\ results[1].rows = <<>>
    /\ response = <<Lit(NO_RESULTS)>>

\* C7, as stated: the cleanup is idempotent, clean(clean(r)) = clean(r).
C7_CleanIdempotent ==
    (variant = "cleanup" /\ pc = "recleaned") => recleaned = sql_query

QuitWords == {<<"q","u","i","t">>, <<"e","x","i","t">>}

C9_ContextChangesAtTurnEnd ==
    [][variant = "interactive" =>
          /\ pc \in {"awaiting", "querying"} => chat_history' = chat_history
          /\ pc = "replied" =>
                 LET n == Len(chat_history')
                 IN  /\ n >= 2
                     /\ chat_history'[n - 1] =
                            [role |-> "user", parts |-> <<Str(user_question)>>]
                     /\ chat_history'[n] = [role |-> "model", parts |-> response]
                     /\ IsSuffix(SubSeq(chat_history', 1, n - 2), chat_history)
                     /\ log' = log \o SubSeq(chat_history', n - 1, n)]_vars

\* C9 witness: a turn that ended in a database error has been appended after
\* an earlier turn.
C9_Witness ==
    /\ variant = "interactive"
    /\ pc = "awaiting"
    /\ dbError # <<>>
    /\ Len(chat_history) >= 4
    /\ chat_history[Len(chat_history)].parts = response
    /\ chat_history[Len(chat_history) - 1].parts = <<Str(user_question)>>

\* C10, as stated: in the web variant every submitted question adds one user
\* entry and then one assistant entry, so the transcript after the greeting
\* alternates user, assistant.
C10_TranscriptAlternates ==
    variant = "web" =>
        /\ Len(messages) = 1 + 2 * turns
        /\ \A i \in 2..Len(messages) :
               messages[i].role = IF i % 2 = 0 THEN "user" ELSE "assistant"
====
